---- MODULE Spec2Model ----
(***************************************************************************)
(* A model of src/main/main.py: ArticleProcessor (synonym loading, jieba   *)
(* vocabulary registration, sentence condensation, synonym substitution,   *)
(* paragraph/sentence processing) and ArticleApp.start_processing.         *)
(*                                                                         *)
(* A string is a sequence of characters; a character is a one-element TLA+ *)
(* string.  The full-width marks of the source are written in ASCII:       *)
(*   "." is the ideographic full stop, "!" and "?" the full-width marks,   *)
(*   "," the full-width comma, "\n" the line feed, " " a blank.            *)
(* Chinese characters are written by their pinyin ("dang", "shi2", ...).   *)
(* jieba (lcut, posseg.cut) is an external library: its result is modelled *)
(* as any partition of the text into non-empty tokens, with any POS code   *)
(* of a small set on each token.                                           *)
(***************************************************************************)
EXTENDS Integers, Sequences, FiniteSets, TLC

VARIABLES
  pc,                   \* position of the running handler
  \* ArticleProcessor state and the process-wide jieba vocabulary
  synonyms,             \* self.synonyms, in insertion order
  registered,           \* words given to jieba.add_word so far (process-wide)
  \* _replace_words locals
  text, words, replaced, current_index, wi, result,
  \* _condense_sentence locals
  sentence, kept_words, condensed, ki, condense_result,
  \* process locals
  article_text, contrast, paragraphs, processed_paragraphs, contrast_pairs,
  para_i, sentences, seg_i, new_sentences, buffer, process_result,
  \* load_synonyms / start_processing
  dict_lines, line_i, messages, clicks

replaceVars  == <<text, words, replaced, current_index, wi, result>>
condenseVars == <<sentence, kept_words, condensed, ki, condense_result>>
processVars  == <<article_text, contrast, paragraphs, processed_paragraphs,
                  contrast_pairs, para_i, sentences, seg_i, new_sentences,
                  buffer, process_result>>
appVars      == <<dict_lines, line_i, messages, clicks>>
vars == <<pc, synonyms, registered, replaceVars, condenseVars, processVars, appVars>>

-----------------------------------------------------------------------------
(* Strings.                                                                *)

Range(s) == {s[i] : i \in 1..Len(s)}

\* All sequences over S of length 0..n.
SeqsUpTo(S, n) == UNION {[1..k -> S] : k \in 0..n}

RECURSIVE Join(_)
\* ''.join(parts)
Join(parts) == IF parts = <<>> THEN <<>> ELSE Head(parts) \o Join(Tail(parts))

RECURSIVE JoinWith(_, _)
\* sep.join(parts) for a one-character separator
JoinWith(sep, parts) ==
  IF parts = <<>> THEN <<>>
  ELSE IF Len(parts) = 1 THEN Head(parts)
  ELSE Head(parts) \o <<sep>> \o JoinWith(sep, Tail(parts))

\* s.startswith(prefix, start) with a 0-based start, as in Python
StartsWith(s, prefix, start) ==
  /\ start + Len(prefix) <= Len(s)
  /\ \A j \in 1..Len(prefix) : s[start + j] = prefix[j]

\* The characters str.strip() removes.
Whitespace == {" ", "\n"}

RECURSIVE LStrip(_)
LStrip(s) == IF s # <<>> /\ Head(s) \in Whitespace THEN LStrip(Tail(s)) ELSE s

RECURSIVE RStrip(_)
RStrip(s) ==
  IF s # <<>> /\ s[Len(s)] \in Whitespace THEN RStrip(SubSeq(s, 1, Len(s) - 1)) ELSE s

\* s.strip()
Strip(s) == RStrip(LStrip(s))

RECURSIVE Split(_, _)
\* s.split(sep) for a one-character separator: always at least one piece
Split(s, sep) ==
  IF \A j \in 1..Len(s) : s[j] # sep THEN <<s>>
  ELSE LET p == CHOOSE j \in 1..Len(s) : s[j] = sep /\ \A k \in 1..(j - 1) : s[k] # sep
       IN  <<SubSeq(s, 1, p - 1)>> \o Split(SubSeq(s, p + 1, Len(s)), sep)

-----------------------------------------------------------------------------
(* jieba: segmentation as an arbitrary partition into non-empty tokens.    *)

RECURSIVE Segmentations(_)
\* Every way jieba.lcut may cut s: the tokens are non-empty and concatenate to s.
Segmentations(s) ==
  IF s = <<>> THEN {<<>>}
  ELSE UNION {{<<SubSeq(s, 1, k)>> \o rest : rest \in Segmentations(SubSeq(s, k + 1, Len(s)))}
              : k \in 1..Len(s)}

-----------------------------------------------------------------------------
(* self.synonyms: a defaultdict(list), kept as the sequence of its items   *)
(* in insertion order, each [orig |-> key, repl |-> list of replacements]. *)

Keys(syn) == [i \in 1..Len(syn) |-> syn[i].orig]

KeySet(syn) == {syn[i].orig : i \in 1..Len(syn)}

\* self.synonyms[orig] for a key that is present
Lookup(syn, orig) == (CHOOSE i \in 1..Len(syn) : syn[i].orig = orig)

Repl(syn, orig) == syn[Lookup(syn, orig)].repl

\* self.synonyms[orig].append(replace)
AddSynonym(syn, orig, replace) ==
  IF orig \in KeySet(syn)
  THEN [syn EXCEPT ![Lookup(syn, orig)].repl = Append(@, replace)]
  ELSE Append(syn, [orig |-> orig, repl |-> <<replace>>])

MaxLenOf(ks) == IF ks = <<>> THEN 0
                ELSE CHOOSE n \in {Len(ks[i]) : i \in 1..Len(ks)} :
                       \A i \in 1..Len(ks) : Len(ks[i]) <= n

RECURSIVE ByLenFrom(_, _, _)
\* The keys of each length in turn, from..to, each group in its original order.
ByLenFrom(ks, n, step) ==
  IF n < 0 \/ n > MaxLenOf(ks) THEN <<>>
  ELSE SelectSeq(ks, LAMBDA k : Len(k) = n) \o ByLenFrom(ks, n + step, step)

\* The mutant: sorted(..., key=len) without reverse=True, shortest first.
SortedKeysAscending(syn) == ByLenFrom(Keys(syn), 0, 1)

\* sorted(self.synonyms.keys(), key=lambda x: len(x), reverse=True): a stable
\* sort, longest first.
SortedKeys(syn) == ByLenFrom(Keys(syn), MaxLenOf(Keys(syn)), -1)

-----------------------------------------------------------------------------
(* _replace_words.                                                         *)

\* The first key, in sorted order, that text starts with at current_index;
\* <<>> when the inner for loop ends without a break (no key is empty).
FirstMatch(syn, txt, idx) ==
  LET ks == SortedKeys(syn)
      hits == {i \in 1..Len(ks) : StartsWith(txt, ks[i], idx)}
  IN  IF hits = {} THEN <<>>
      ELSE ks[CHOOSE i \in hits : \A j \in hits : i <= j]

\* The mutant: a word that is not in the table is not copied to the output.
ReplaceIterDropsUnknown(st, txt, word, syn) ==
  IF word \in KeySet(syn)
  THEN LET orig == FirstMatch(syn, txt, st.current_index)
       IN  IF orig # <<>>
           THEN [replaced |-> Append(st.replaced, Repl(syn, orig)[1]),
                 current_index |-> st.current_index + Len(orig)]
           ELSE [replaced |-> Append(st.replaced, Repl(syn, word)[1]),
                 current_index |-> st.current_index + Len(word)]
  ELSE [replaced |-> st.replaced,
        current_index |-> st.current_index + Len(word)]

\* One iteration of "for word in words" on the loop state st.
ReplaceIter(st, txt, word, syn) ==
  IF word \in KeySet(syn)
  THEN LET orig == FirstMatch(syn, txt, st.current_index)
       IN  IF orig # <<>>
           THEN [replaced |-> Append(st.replaced, Repl(syn, orig)[1]),
                 current_index |-> st.current_index + Len(orig)]
           ELSE [replaced |-> Append(st.replaced, Repl(syn, word)[1]),
                 current_index |-> st.current_index + Len(word)]
  ELSE [replaced |-> Append(st.replaced, word),
        current_index |-> st.current_index + Len(word)]

RECURSIVE ReplaceLoop(_, _, _, _)
\* The loop state after the first k words.
ReplaceLoop(txt, ws, syn, k) ==
  IF k = 0 THEN [replaced |-> <<>>, current_index |-> 0]
  ELSE ReplaceIter(ReplaceLoop(txt, ws, syn, k - 1), txt, ws[k], syn)

\* _replace_words(text) when jieba.lcut(text) returns ws
ReplaceWords(txt, ws, syn) == Join(ReplaceLoop(txt, ws, syn, Len(ws)).replaced)

-----------------------------------------------------------------------------
(* _condense_sentence.                                                     *)

\* Whether s holds the literal lit at the 1-based position p.
HasAt(s, p, lit) ==
  /\ p + Len(lit) - 1 <= Len(s)
  /\ \A j \in 1..Len(lit) : s[p + j - 1] = lit[j]

\* The least q >= from at which lit stands, every character of s[from..q-1]
\* being one that "." matches (any but a line feed); 0 if there is none.
\* This is where a lazy ".*?" followed by the literal lit stops.
LazyDotThen(s, from, lit) ==
  LET ok == {q \in from..(Len(s) + 1) :
               /\ HasAt(s, q, lit)
               /\ \A j \in from..(q - 1) : s[j] # "\n"}
  IN  IF ok = {} THEN 0 ELSE CHOOSE q \in ok : \A r \in ok : q <= r

\* An optional trailing full-width comma at e (greedy "，?").
OptComma(s, e) == IF HasAt(s, e, <<",">>) THEN e + 1 ELSE e

\* Each alternative of the pattern matched at p: the position after the match,
\* 0 for no match.
\*   当.*?时，?
MatchDangShi(s, p) ==
  IF ~HasAt(s, p, <<"dang">>) THEN 0
  ELSE LET q == LazyDotThen(s, p + 1, <<"shi2">>)
       IN  IF q = 0 THEN 0 ELSE OptComma(s, q + 1)

\*   尽管.*?，?   the comma is optional, so the lazy .*? stops at once
MatchJinGuan(s, p) ==
  IF ~HasAt(s, p, <<"jin", "guan">>) THEN 0
  ELSE OptComma(s, LazyDotThen(s, p + 2, <<>>))

\*   虽然.*?但是
MatchSuiRan(s, p) ==
  IF ~HasAt(s, p, <<"sui", "ran">>) THEN 0
  ELSE LET q == LazyDotThen(s, p + 2, <<"dan", "shi4">>)
       IN  IF q = 0 THEN 0 ELSE q + 2

\* The alternatives are tried in order at p.
MatchEnd(s, p) ==
  IF MatchDangShi(s, p) # 0 THEN MatchDangShi(s, p)
  ELSE IF MatchJinGuan(s, p) # 0 THEN MatchJinGuan(s, p)
  ELSE MatchSuiRan(s, p)

RECURSIVE ReSubFrom(_, _)
\* re.sub(pattern, '', s) from position p on: leftmost matches, not overlapping.
ReSubFrom(s, p) ==
  IF p > Len(s) THEN <<>>
  ELSE IF MatchEnd(s, p) # 0 THEN ReSubFrom(s, MatchEnd(s, p))
  ELSE <<s[p]>> \o ReSubFrom(s, p + 1)

\* re.sub(r'当.*?时，?|尽管.*?，?|虽然.*?但是', '', sentence)
ReSub(s) == ReSubFrom(s, 1)

\* The POS flags pseg.cut may give a token; a flag is a string and pos[0]
\* its first character.
POSFlags == {<<"n">>, <<"v", "n">>, <<"a", "d">>, <<"d">>}

\* Every result of pseg.cut(s): a segmentation with a flag on each token.
RECURSIVE TaggedSegmentations(_)
TaggedSegmentations(s) ==
  IF s = <<>> THEN {<<>>}
  ELSE UNION {{<<[word |-> SubSeq(s, 1, k), pos |-> f]>> \o rest :
                 f \in POSFlags,
                 rest \in TaggedSegmentations(SubSeq(s, k + 1, Len(s)))}
              : k \in 1..Len(s)}

\* ["但是", "然而"]
Connectors == {<<"dan", "shi4">>, <<"ran", "er">>}

\* Lines 60-65: the words kept.
Kept(pair) ==
  \/ pair.pos[1] \in {"n", "v", "a"} /\ Len(pair.word) > 1
  \/ pair.word \in Connectors

KeepWords(cut) ==
  LET kept == SelectSeq(cut, Kept)
  IN  [i \in 1..Len(kept) |-> kept[i].word]

\* The mutant: the test on the word before is left out.
DedupIterNoReset(cond, kept, i) ==
  IF kept[i] \notin Range(cond) THEN Append(cond, kept[i]) ELSE cond

\* Lines 70-73: one iteration of the loop over kept_words (i is 1-based here).
DedupIter(cond, kept, i) ==
  IF i > 1 /\ kept[i - 1] \in Connectors THEN Append(cond, kept[i])
  ELSE IF kept[i] \notin Range(cond) THEN Append(cond, kept[i])
  ELSE cond

RECURSIVE DedupLoop(_, _)
\* condensed after the first k kept words
DedupLoop(kept, k) ==
  IF k = 0 THEN <<>> ELSE DedupIter(DedupLoop(kept, k - 1), kept, k)

\* _condense_sentence(sentence) from line 60 on, when pseg.cut returns cut
CondenseCut(cut) ==
  LET kept == KeepWords(cut)
  IN  IF kept = <<>> THEN <<>> ELSE Join(DedupLoop(kept, Len(kept)))

-----------------------------------------------------------------------------
(* process.                                                                *)

\* ["。", "！", "？"]
Marks == {".", "!", "?"}

RECURSIVE ReSplitMarks(_)
\* re.split(r'([。！？])', para): the pieces between the marks, each mark kept
\* as a piece of its own.
ReSplitMarks(s) ==
  IF \A j \in 1..Len(s) : s[j] \notin Marks THEN <<s>>
  ELSE LET p == CHOOSE j \in 1..Len(s) :
                  s[j] \in Marks /\ \A k \in 1..(j - 1) : s[k] \notin Marks
       IN  <<SubSeq(s, 1, p - 1), <<s[p]>>>> \o ReSplitMarks(SubSeq(s, p + 1, Len(s)))

IsMark(seg) == Len(seg) = 1 /\ seg[1] \in Marks

-----------------------------------------------------------------------------
(* Actions of _replace_words (lines 84-102).                               *)

\* One iteration of the loop over words (lines 87-101).
ReplaceStep ==
  /\ pc = "replace"
  /\ wi <= Len(words)
  /\ LET st == ReplaceIter([replaced |-> replaced, current_index |-> current_index],
                           text, words[wi], synonyms)
     IN  /\ replaced' = st.replaced
         /\ current_index' = st.current_index
  /\ wi' = wi + 1
  /\ UNCHANGED <<pc, synonyms, registered, text, words, result,
                 condenseVars, processVars, appVars>>

\* return ''.join(replaced) (line 102)
ReplaceReturn ==
  /\ pc = "replace"
  /\ wi > Len(words)
  /\ result' = Join(replaced)
  /\ pc' = "replace_done"
  /\ UNCHANGED <<synonyms, registered, text, words, replaced, current_index, wi,
                 condenseVars, processVars, appVars>>

-----------------------------------------------------------------------------
(* Actions of _condense_sentence (lines 58-74).                            *)

\* sentence = re.sub(...) (line 58)
CondenseStrip ==
  /\ pc = "condense"
  /\ sentence' = ReSub(sentence)
  /\ pc' = "cut"
  /\ UNCHANGED <<synonyms, registered, replaceVars, kept_words,
                 condensed, ki, condense_result, processVars, appVars>>

\* words = pseg.cut(sentence) and the loop that fills kept_words (lines 59-67)
CondenseKeep ==
  /\ pc = "cut"
  /\ \E cut \in TaggedSegmentations(sentence) :
       /\ kept_words' = KeepWords(cut)
       /\ IF KeepWords(cut) = <<>>
          THEN /\ condense_result' = <<>>
               /\ pc' = "condense_done"
          ELSE /\ condense_result' = condense_result
               /\ pc' = "dedup"
  /\ condensed' = <<>>
  /\ ki' = 1
  /\ UNCHANGED <<synonyms, registered, replaceVars, sentence, processVars, appVars>>

\* One iteration of the loop over kept_words (lines 69-73).
CondenseDedupStep ==
  /\ pc = "dedup"
  /\ ki <= Len(kept_words)
  /\ condensed' = DedupIter(condensed, kept_words, ki)
  /\ ki' = ki + 1
  /\ UNCHANGED <<pc, synonyms, registered, replaceVars, sentence,
                 kept_words, condense_result, processVars, appVars>>

\* return "".join(condensed) (line 74)
CondenseReturn ==
  /\ pc = "dedup"
  /\ ki > Len(kept_words)
  /\ condense_result' = Join(condensed)
  /\ pc' = "condense_done"
  /\ UNCHANGED <<synonyms, registered, replaceVars, sentence,
                 kept_words, condensed, ki, processVars, appVars>>

-----------------------------------------------------------------------------
(* Actions of process (lines 114-142).                                     *)

\* Lines 114-116.
ProcessStart ==
  /\ pc = "process"
  /\ paragraphs' = Split(article_text, "\n")
  /\ processed_paragraphs' = <<>>
  /\ contrast_pairs' = <<>>
  /\ para_i' = 1
  /\ pc' = "para"
  /\ UNCHANGED <<synonyms, registered, replaceVars, condenseVars, article_text,
                 contrast, sentences, seg_i, new_sentences, buffer,
                 process_result, appVars>>

\* The mutant: a blank paragraph is skipped without its empty line.
BlankParagraphDropped(done) == done

\* processed_paragraphs.append("") for a blank paragraph (line 120)
BlankParagraph(done) == Append(done, <<>>)

\* The head of the loop over paragraphs (lines 118-124).
ParaStart ==
  /\ pc = "para"
  /\ para_i <= Len(paragraphs)
  /\ IF Strip(paragraphs[para_i]) = <<>>
     THEN /\ processed_paragraphs' = BlankParagraph(processed_paragraphs)
          /\ para_i' = para_i + 1
          /\ UNCHANGED <<pc, sentences, seg_i, new_sentences, buffer>>
     ELSE /\ sentences' = ReSplitMarks(paragraphs[para_i])
          /\ new_sentences' = <<>>
          /\ buffer' = <<>>
          /\ seg_i' = 1
          /\ pc' = "seg"
          /\ UNCHANGED <<processed_paragraphs, para_i>>
  /\ UNCHANGED <<synonyms, registered, replaceVars, condenseVars, article_text,
                 contrast, paragraphs, contrast_pairs, process_result, appVars>>

\* Every value _condense_sentence(s) may return: one for each result of pseg.cut.
Condensations(s) == {CondenseCut(cut) : cut \in TaggedSegmentations(ReSub(s))}

\* Every value _replace_words(_condense_sentence(s)) may return (lines 129-130).
Transformations(s, syn) ==
  UNION {{ReplaceWords(c, ws, syn) : ws \in Segmentations(c)} : c \in Condensations(s)}

\* The mutant: a sentence is put out only when its text is not blank.
FlushesBufferIfText(buf) == Strip(Join(buf)) # <<>>

\* "if buffer:" (line 127): a list is true when it holds an element.
FlushesBuffer(buf) == buf # <<>>

\* The mutant: a pair is recorded for every sentence.
RecordsPairAlways(orig_sentence, repl) == TRUE

\* "if orig_sentence and replaced:" (line 132)
RecordsPair(orig_sentence, repl) == orig_sentence # <<>> /\ repl # <<>>

\* One iteration of the loop over the pieces of a paragraph (lines 125-136),
\* with the calls of _condense_sentence and _replace_words it makes.
SegStep ==
  /\ pc = "seg"
  /\ seg_i <= Len(sentences)
  /\ LET seg == sentences[seg_i]
     IN  IF IsMark(seg)
         THEN IF FlushesBuffer(buffer)
              THEN LET orig_sentence == Strip(Join(buffer))
                   IN  \E repl \in Transformations(orig_sentence, synonyms) :
                         /\ new_sentences' = Append(new_sentences, repl \o seg)
                         /\ contrast_pairs' =
                              IF RecordsPair(orig_sentence, repl)
                              THEN Append(contrast_pairs,
                                          <<orig_sentence \o seg, repl \o seg>>)
                              ELSE contrast_pairs
                         /\ buffer' = <<>>
              ELSE UNCHANGED <<new_sentences, contrast_pairs, buffer>>
         ELSE /\ buffer' = Append(buffer, seg)
              /\ UNCHANGED <<new_sentences, contrast_pairs>>
  /\ seg_i' = seg_i + 1
  /\ UNCHANGED <<pc, synonyms, registered, replaceVars, condenseVars, article_text,
                 contrast, paragraphs, processed_paragraphs, para_i, sentences,
                 process_result, appVars>>

\* processed_paragraphs.append(''.join(new_sentences)) (line 137)
ParaEnd ==
  /\ pc = "seg"
  /\ seg_i > Len(sentences)
  /\ processed_paragraphs' = Append(processed_paragraphs, Join(new_sentences))
  /\ para_i' = para_i + 1
  /\ pc' = "para"
  /\ UNCHANGED <<synonyms, registered, replaceVars, condenseVars, article_text,
                 contrast, paragraphs, contrast_pairs, sentences, seg_i,
                 new_sentences, buffer, process_result, appVars>>

\* Lines 138-142: the text alone, or the pair of the text and the list.
ProcessReturn ==
  /\ pc = "para"
  /\ para_i > Len(paragraphs)
  /\ process_result' =
       IF contrast
       THEN [processed_text |-> JoinWith("\n", processed_paragraphs),
             contrast_pairs |-> contrast_pairs]
       ELSE [processed_text |-> JoinWith("\n", processed_paragraphs)]
  /\ pc' = "returned"
  /\ UNCHANGED <<synonyms, registered, replaceVars, condenseVars, article_text,
                 contrast, paragraphs, processed_paragraphs, contrast_pairs,
                 para_i, sentences, seg_i, new_sentences, buffer, appVars>>

-----------------------------------------------------------------------------
(* Actions of ArticleApp.start_processing (lines 232-259), with the        *)
(* construction of the ArticleProcessor it makes (lines 19-48).            *)

MaxClicks == 2

\* re.split(r'\s+', line, 1) on a stripped, non-empty line
SplitOnce(l) ==
  IF \A j \in 1..Len(l) : l[j] \notin Whitespace THEN <<l>>
  ELSE LET p == CHOOSE j \in 1..Len(l) :
                  l[j] \in Whitespace /\ \A k \in 1..(j - 1) : l[k] \notin Whitespace
           q == CHOOSE j \in p..Len(l) :
                  /\ \A k \in p..j : l[k] \in Whitespace
                  /\ (j = Len(l) \/ l[j + 1] \notin Whitespace)
       IN  <<SubSeq(l, 1, p - 1), SubSeq(l, q + 1, Len(l))>>

\* The body of "for line in f" (lines 40-46) on the table syn.
LoadOne(syn, line) ==
  LET l == Strip(line)
  IN  IF l = <<>> THEN syn
      ELSE LET parts == SplitOnce(l)
           IN  IF Len(parts) = 2 THEN AddSynonym(syn, parts[1], parts[2]) ELSE syn

RECURSIVE LoadAll(_, _)
\* The table after the first k lines of the file.
LoadAll(lines, k) == IF k = 0 THEN <<>> ELSE LoadOne(LoadAll(lines, k - 1), lines[k])

\* What the dictionary file may hold, line by line.
LinePool == {<<"a", " ", "x", "\n">>,
             <<"a", "b", " ", " ", "y", " ", "y", "\n">>,
             <<"a", " ", "z", "\n">>,
             <<"b", "\n">>,
             <<" ", "\n">>}

MaxDictLines == 2

Dictionaries == SeqsUpTo(LinePool, MaxDictLines)

\* What the input box may hold when the button is pressed.
AppInputs == {<<" ">>, <<"a", "b", ".", "\n">>}

\* Lines 233-237 and 19-21: the click, up to the call of load_synonyms.
StartProcessing ==
  /\ pc = "idle"
  /\ clicks < MaxClicks
  /\ clicks' = clicks + 1
  /\ \E input \in AppInputs, d \in Dictionaries, c \in BOOLEAN :
       IF Strip(input) = <<>>
       THEN /\ messages' = Append(messages, [click |-> clicks + 1, kind |-> "warning"])
            /\ UNCHANGED <<pc, synonyms, article_text, contrast, dict_lines, line_i>>
       ELSE /\ article_text' = Strip(input)
            /\ contrast' = c
            /\ synonyms' = <<>>
            /\ dict_lines' = d
            /\ line_i' = 1
            /\ pc' = "load"
            /\ UNCHANGED messages
  /\ UNCHANGED <<registered, replaceVars, condenseVars, paragraphs,
                 processed_paragraphs, contrast_pairs, para_i, sentences, seg_i,
                 new_sentences, buffer, process_result>>

\* One line of the file read and parsed (lines 39-46).
LoadLine ==
  /\ pc = "load"
  /\ line_i <= Len(dict_lines)
  /\ synonyms' = LoadOne(synonyms, dict_lines[line_i])
  /\ line_i' = line_i + 1
  /\ UNCHANGED <<pc, registered, replaceVars, condenseVars, processVars,
                 dict_lines, messages, clicks>>

\* open() or the read of the next line raises; the handler shows the error
\* and load_synonyms returns (lines 47-48).
LoadFail ==
  /\ pc = "load"
  /\ messages' = Append(messages, [click |-> clicks, kind |-> "load_error"])
  /\ pc' = "init_jieba"
  /\ UNCHANGED <<synonyms, registered, replaceVars, condenseVars, processVars,
                 dict_lines, line_i, clicks>>

\* The file is read to its end.
LoadEnd ==
  /\ pc = "load"
  /\ line_i > Len(dict_lines)
  /\ pc' = "init_jieba"
  /\ UNCHANGED <<synonyms, registered, replaceVars, condenseVars, processVars, appVars>>

\* _init_jieba (lines 28-30), then the call of process (lines 238-242).
InitJieba ==
  /\ pc = "init_jieba"
  /\ registered' = registered \cup KeySet(synonyms)
  /\ pc' = "process"
  /\ UNCHANGED <<synonyms, replaceVars, condenseVars, processVars, appVars>>

\* Lines 247-259: the result is shown and the handler returns; its locals,
\* the ArticleProcessor among them, are gone.
ShowResult ==
  /\ pc = "returned"
  /\ pc' = "idle"
  /\ synonyms' = <<>>
  /\ article_text' = <<>> /\ contrast' = FALSE /\ paragraphs' = <<>>
  /\ processed_paragraphs' = <<>> /\ contrast_pairs' = <<>>
  /\ para_i' = 1 /\ sentences' = <<>> /\ seg_i' = 1
  /\ new_sentences' = <<>> /\ buffer' = <<>>
  /\ process_result' = [processed_text |-> <<>>]
  /\ dict_lines' = <<>> /\ line_i' = 1
  /\ UNCHANGED <<registered, replaceVars, condenseVars, messages, clicks>>

-----------------------------------------------------------------------------
(* Initial states and specifications.                                      *)

NoReplace == /\ text = <<>> /\ words = <<>> /\ replaced = <<>>
             /\ current_index = 0 /\ wi = 1 /\ result = <<>>

NoCondense == /\ sentence = <<>> /\ kept_words = <<>> /\ condensed = <<>>
              /\ ki = 1 /\ condense_result = <<>>

NoProcess == /\ article_text = <<>> /\ contrast = FALSE /\ paragraphs = <<>>
             /\ processed_paragraphs = <<>> /\ contrast_pairs = <<>>
             /\ para_i = 1 /\ sentences = <<>> /\ seg_i = 1
             /\ new_sentences = <<>> /\ buffer = <<>>
             /\ process_result = [processed_text |-> <<>>]

NoApp == /\ dict_lines = <<>> /\ line_i = 1 /\ messages = <<>> /\ clicks = 0

\* --- _replace_words on its own ---

MaxTextLen == 3

MaxEntries == 2

KeyPool == {<<"a">>, <<"b">>, <<"a", "b">>, <<"b", "a">>}

\* The replacement lists of a key: one candidate, or two.
ReplPool == {<< <<"x">> >>, << <<"y", "y">>, <<"x">> >>}

\* The tables load_synonyms can build: distinct keys, in any insertion order.
ReplaceTables ==
  {t \in SeqsUpTo([orig : KeyPool, repl : ReplPool], MaxEntries) :
     \A i, j \in 1..Len(t) : i # j => t[i].orig # t[j].orig}

RenGongZhiNeng == <<"ren", "gong", "zhi", "neng">>

ZhiNeng == <<"zhi", "neng">>

ExampleText == RenGongZhiNeng \o <<"hen", "qiang">>

ExampleTables ==
  {<<[orig |-> RenGongZhiNeng, repl |-> << <<"A", "I">> >>],
     [orig |-> ZhiNeng, repl |-> << <<"s", "m", "a", "r", "t">> >>]>>,
   <<[orig |-> ZhiNeng, repl |-> << <<"s", "m", "a", "r", "t">> >>],
     [orig |-> RenGongZhiNeng, repl |-> << <<"A", "I">> >>]>>}

InitReplace ==
  /\ pc = "replace"
  /\ registered = {}
  /\ \/ /\ synonyms \in ReplaceTables
        /\ text \in SeqsUpTo({"a", "b"}, MaxTextLen)
     \/ /\ synonyms \in ExampleTables
        /\ text = ExampleText
  /\ words \in Segmentations(text)
  /\ replaced = <<>> /\ current_index = 0 /\ wi = 1 /\ result = <<>>
  /\ NoCondense /\ NoProcess /\ NoApp

NextReplace == ReplaceStep \/ ReplaceReturn

SpecReplace == InitReplace /\ [][NextReplace]_vars

\* --- the pattern removal of _condense_sentence on its own ---

MaxStripPieces == 3

StripPieces == {<<"dang">>, <<"shi2">>, <<",">>, <<"jin", "guan">>,
                <<"sui", "ran">>, <<"dan", "shi4">>, <<"x">>}

InitStrip ==
  /\ pc = "condense"
  /\ registered = {} /\ synonyms = <<>>
  /\ sentence \in {Join(ps) : ps \in SeqsUpTo(StripPieces, MaxStripPieces)}
  /\ kept_words = <<>> /\ condensed = <<>> /\ ki = 1 /\ condense_result = <<>>
  /\ NoReplace /\ NoProcess /\ NoApp

NextStrip == CondenseStrip

SpecStrip == InitStrip /\ [][NextStrip]_vars

\* --- _condense_sentence on its own ---

MaxCondensePieces == 2

CondensePieces == {<<"wen", "ti">>, <<"dan", "shi4">>, <<"ran", "er">>}

WenTi == <<"wen", "ti">>

DanShi == <<"dan", "shi4">>

DianNao == <<"dian", "nao">>

YunXing == <<"yun", "xing">>

ExampleSentences == {WenTi \o DanShi \o WenTi, DianNao \o YunXing \o DianNao}

InitCondense ==
  /\ pc = "condense"
  /\ registered = {} /\ synonyms = <<>>
  /\ sentence \in {Join(ps) : ps \in SeqsUpTo(CondensePieces, MaxCondensePieces)}
                    \cup ExampleSentences
  /\ kept_words = <<>> /\ condensed = <<>> /\ ki = 1 /\ condense_result = <<>>
  /\ NoReplace /\ NoProcess /\ NoApp

NextCondense == CondenseStrip \/ CondenseKeep \/ CondenseDedupStep \/ CondenseReturn

SpecCondense == InitCondense /\ [][NextCondense]_vars

\* --- process on its own ---

MaxArticlePieces == 3

ArticlePieces == {<<"a", "a", ".">>, <<"a">>, <<"?">>, <<" ">>, <<"\n">>}

Articles == {Join(ps) : ps \in SeqsUpTo(ArticlePieces, MaxArticlePieces)}

\* Tables load_synonyms can build: no key holds whitespace, no replacement
\* starts or ends with it, and none holds a line feed.
ProcessTables ==
  {<<>>,
   <<[orig |-> <<"a", "a">>, repl |-> << <<"b">> >>]>>,
   <<[orig |-> <<"a">>, repl |-> << <<"b", " ", "b">> >>]>>,
   <<[orig |-> <<"a", "a">>, repl |-> << <<"b">>, <<".">> >>]>>,
   <<[orig |-> <<"a", "a">>, repl |-> << <<"b", ".">> >>]>>}

InitProcess ==
  /\ pc = "process"
  /\ registered = {}
  /\ synonyms \in ProcessTables
  /\ article_text \in Articles
  /\ contrast \in BOOLEAN
  /\ paragraphs = <<>> /\ processed_paragraphs = <<>> /\ contrast_pairs = <<>>
  /\ para_i = 1 /\ sentences = <<>> /\ seg_i = 1
  /\ new_sentences = <<>> /\ buffer = <<>>
  /\ process_result = [processed_text |-> <<>>]
  /\ NoReplace /\ NoCondense /\ NoApp

NextProcess == ProcessStart \/ ParaStart \/ SegStep \/ ParaEnd \/ ProcessReturn

SpecProcess == InitProcess /\ [][NextProcess]_vars

\* --- the application: clicks on the button, one after the other ---

Init ==
  /\ pc = "idle"
  /\ registered = {}
  /\ synonyms = <<>>
  /\ NoReplace /\ NoCondense /\ NoProcess /\ NoApp

Next ==
  \/ StartProcessing \/ LoadLine \/ LoadFail \/ LoadEnd \/ InitJieba
  \/ ProcessStart \/ ParaStart \/ SegStep \/ ParaEnd \/ ProcessReturn
  \/ ShowResult

Spec == Init /\ [][Next]_vars

-----------------------------------------------------------------------------
(* Properties.                                                             *)

CountMarks(s) == Cardinality({j \in 1..Len(s) : s[j] \in Marks})

\* Whether sub occurs in s.
Contains(s, sub) == \E p \in 1..(Len(s) + 1) : HasAt(s, p, sub)

\* The lines of the text process returned, and of the text it was given.
OutputLines == Split(process_result.processed_text, "\n")

InputLines == Split(article_text, "\n")

MarksPreserved ==
  /\ Len(OutputLines) = Len(InputLines)
  /\ \A i \in 1..Len(InputLines) : CountMarks(OutputLines[i]) = CountMarks(InputLines[i])

\* No replacement that substitution emits (the first of each term) holds a mark.
NoMarkInFirstReplacement(syn) ==
  \A i \in 1..Len(syn) : CountMarks(syn[i].repl[1]) = 0

\* C1, as stated: for every text and every synonym table, each line of the
\* output of process holds as many terminal marks as the line of the input.
C1_MarksPreservedAnyTable == pc = "returned" => MarksPreserved

\* C1, amended: for every text and every synonym table in which the first
\* replacement of each term holds no terminal mark, each line of the output of
\* process holds as many terminal marks as the line of the input; a sentence
\* whose transformed content is empty puts out its mark alone.
C1_MarksPreserved ==
  (pc = "returned" /\ NoMarkInFirstReplacement(synonyms)) => MarksPreserved

\* A substituted sentence followed by a sentence of no text: "aa.?" gives "b.?".
C1_Witness ==
  /\ pc = "returned"
  /\ synonyms # <<>> /\ NoMarkInFirstReplacement(synonyms)
  /\ article_text = <<"a", "a", ".", "?">>
  /\ process_result.processed_text = <<"b", ".", "?">>

\* C2: the output of process has as many lines as its input, and an empty
\* line wherever the input has one.
C2_ParagraphsPreserved ==
  pc = "returned" =>
    /\ Len(OutputLines) = Len(InputLines)
    /\ \A i \in 1..Len(InputLines) : InputLines[i] = <<>> => OutputLines[i] = <<>>

\* An empty first and last line around a sentence that is substituted.
C2_Witness ==
  /\ pc = "returned"
  /\ article_text = <<"\n", "a", "a", ".", "\n">>
  /\ process_result.processed_text = <<"\n", "b", ".", "\n">>

\* The table terms that text starts with at current_index.
Matching == {k \in KeySet(synonyms) : StartsWith(text, k, current_index)}

LongestMatching == CHOOSE k \in Matching : \A j \in Matching : Len(j) <= Len(k)

\* C3: when the current token is a key of the table and some table term is a
\* prefix of text at current_index, the piece emitted is the first replacement
\* of the longest such term and current_index advances by its length; and the
\* example of the specification comes out as "AI" followed by the last two
\* characters, without "smart".
C3_LongestMatchStep ==
  /\ (pc = "replace" /\ wi <= Len(words) /\ words[wi] \in KeySet(synonyms)
        /\ Matching # {})
     => /\ replaced' = Append(replaced, Repl(synonyms, LongestMatching)[1])
        /\ current_index' = current_index + Len(LongestMatching)
  /\ (pc' = "replace_done" /\ text' = ExampleText /\ synonyms' \in ExampleTables
        /\ words'[1] = RenGongZhiNeng)
     => /\ result' = <<"A", "I", "hen", "qiang">>
        /\ ~Contains(result', <<"s", "m", "a", "r", "t">>)

\* C3: every step of _replace_words emits the first replacement of the longest
\* table term at current_index when the token is a key and a term matches.
C3_LongestMatch == [][C3_LongestMatchStep]_vars

\* Two terms were prefixes of the text at 0, with different first replacements,
\* and the longer one's replacement was emitted.
C3_Witness ==
  /\ pc = "replace" /\ wi = 2
  /\ words[1] \in KeySet(synonyms)
  /\ \E k, m \in KeySet(synonyms) :
       /\ Len(k) < Len(m)
       /\ StartsWith(text, k, 0) /\ StartsWith(text, m, 0)
       /\ Repl(synonyms, k)[1] # Repl(synonyms, m)[1]
       /\ replaced = <<Repl(synonyms, m)[1]>>
       /\ current_index = Len(m)

\* C4: a kept token is appended if and only if the kept token before it is a
\* connector or the token is not yet in the output; [wenti, danshi, wenti]
\* gives all three and [diannao, yunxing, diannao] the first two.
C4_DedupStep ==
  /\ (pc = "dedup" /\ ki <= Len(kept_words))
     => LET tok == kept_words[ki]
            appended == \/ ki > 1 /\ kept_words[ki - 1] \in Connectors
                        \/ \A j \in 1..Len(condensed) : condensed[j] # tok
        IN  condensed' = IF appended THEN condensed \o <<tok>> ELSE condensed
  /\ (pc' = "condense_done" /\ kept_words' = <<WenTi, DanShi, WenTi>>)
     => condense_result' = WenTi \o DanShi \o WenTi
  /\ (pc' = "condense_done" /\ kept_words' = <<DianNao, YunXing, DianNao>>)
     => condense_result' = DianNao \o YunXing

\* C4: every step of the loop over kept_words appends the token if and only if
\* the token before it is a connector or the token is not yet in the output.
C4_Dedup == [][C4_DedupStep]_vars

C4_Witness ==
  /\ pc = "condense_done"
  /\ kept_words = <<WenTi, DanShi, WenTi>>
  /\ condense_result = WenTi \o DanShi \o WenTi

\* C5: each sentence (each terminal mark) adds the pair of its trimmed text and
\* its transformed text, both with the mark, exactly when both are non-empty;
\* nothing else changes the list, and with contrast requested the list is
\* returned.
C5_ContrastStep ==
  /\ (pc = "seg" /\ seg_i <= Len(sentences) /\ IsMark(sentences[seg_i]))
     => LET orig == Strip(Join(buffer))
            mark == sentences[seg_i]
            out  == new_sentences'[Len(new_sentences')]
            repl == SubSeq(out, 1, Len(out) - 1)
        IN  /\ Len(new_sentences') = Len(new_sentences) + 1
            /\ out[Len(out)] = mark[1]
            /\ contrast_pairs' =
                 IF orig # <<>> /\ repl # <<>>
                 THEN contrast_pairs \o << <<orig \o mark, out>> >>
                 ELSE contrast_pairs
  /\ (pc \in {"para", "seg"}
        /\ ~(pc = "seg" /\ seg_i <= Len(sentences) /\ IsMark(sentences[seg_i])))
     => contrast_pairs' = contrast_pairs
  /\ (pc = "para" /\ pc' = "returned" /\ contrast)
     => process_result'.contrast_pairs = contrast_pairs

\* C5: every step of process keeps contrast_pairs the list of the pairs of the
\* sentences whose trimmed text and transformed text are both non-empty.
C5_ContrastPairs == [][C5_ContrastStep]_vars

\* Three sentences, the second of no text: two pairs, in the order of the text.
C5_Witness ==
  /\ pc = "returned" /\ contrast
  /\ article_text = <<"a", "a", ".", "?", "a", "a", ".">>
  /\ process_result.contrast_pairs =
       << << <<"a", "a", ".">>, <<"b", " ", "b", "b", " ", "b", ".">> >>,
          << <<"a", "a", ".">>, <<"a", "a", ".">> >> >>

\* C6: with an empty table _replace_words returns its text, whatever the
\* segmentation.
C6_EmptyTableIdentity ==
  (pc = "replace_done" /\ synonyms = <<>>) => result = text

C6_Witness ==
  /\ pc = "replace_done" /\ synonyms = <<>>
  /\ Len(words) = 2 /\ Len(text) = 3
  /\ result = text

\* The dialogs of the click being handled.
LoadErrorShown ==
  \E j \in 1..Len(messages) :
    messages[j].click = clicks /\ messages[j].kind = "load_error"

\* C7: when reading the dictionary fails, the construction fails and no
\* process call runs on the table read so far.
C7_NoProcessAfterLoadError ==
  pc \in {"process", "para", "seg", "returned"} => ~LoadErrorShown

\* C8: at every segmentation call the words registered with jieba are exactly
\* the keys of the table of the processor that runs (here in the runs in which
\* no dialog was ever shown: every dictionary was read to its end).
C8_VocabularyIsActiveTable ==
  (pc \in {"para", "seg"} /\ messages = <<>>) => registered = KeySet(synonyms)

\* What C9 describes for one occurrence at p: the span from 尽管 through the
\* next full-width comma.
ConcessiveEnd(s, p) ==
  IF ~HasAt(s, p, <<"jin", "guan">>) THEN 0
  ELSE LET q == LazyDotThen(s, p + 2, <<",">>)
       IN  IF q = 0 THEN 0 ELSE q + 1

RECURSIVE WithoutConcessive(_, _)
WithoutConcessive(s, p) ==
  IF p > Len(s) THEN <<>>
  ELSE IF ConcessiveEnd(s, p) # 0 THEN WithoutConcessive(s, ConcessiveEnd(s, p))
  ELSE <<s[p]>> \o WithoutConcessive(s, p + 1)

\* C9: in a sentence that holds none of the other two patterns (no 当, no 虽然)
\* and in which a 尽管 is followed later by a comma, every span from 尽管
\* through the next comma is removed.
C9_ConcessiveStep ==
  (/\ pc = "condense"
   /\ ~Contains(sentence, <<"dang">>) /\ ~Contains(sentence, <<"sui", "ran">>)
   /\ \E p \in 1..Len(sentence) : ConcessiveEnd(sentence, p) # 0
   /\ \A p \in 1..Len(sentence) :
        HasAt(sentence, p, <<"jin", "guan">>) => ConcessiveEnd(sentence, p) # 0)
  => sentence' = WithoutConcessive(sentence, 1)

\* C9: the pattern removal takes out every span from 尽管 through the next
\* full-width comma.
C9_ConcessiveSpanRemoved == [][C9_ConcessiveStep]_vars

\* C10: when the handling of a token begins, current_index is the offset at
\* which the token starts in text, and after the last token it is len(text).
C10_IndexIsTokenOffset ==
  pc = "replace" => current_index = Len(Join(SubSeq(words, 1, wi - 1)))

====
